---- MODULE Spec2Model ----
(***************************************************************************)
(* State-machine model of src/main/ts/index.ts: the onload handler that    *)
(* builds a WebGL shader program and static buffers, and the update /      *)
(* drawScene frame callback driven by requestAnimationFrame.                *)
(*                                                                         *)
(* JavaScript runs each handler to completion; a handler is modelled as    *)
(* the list of its statements in source order, executed one statement per  *)
(* step with no other handler interleaved.  Floating-point numbers are     *)
(* fixed-point integers with Scale units per 1.0.                          *)
(***************************************************************************)
EXTENDS Integers, Sequences, FiniteSets, TLC

\* ------------------------------------------------------------------------
\* Bounds of the model
\* ------------------------------------------------------------------------
\* fixed-point units per 1.0
Scale == 1000
\* number of Taylor terms used for Math.sin / Math.cos
TaylorTerms == 8
\* host timestamps are TimeStep, 2*TimeStep, ..., MaxTime*TimeStep (milliseconds)
TimeStep == 700
MaxTime == 3

HostTimestamps == {k * TimeStep : k \in 1..MaxTime}

\* window.innerWidth x window.innerHeight the host may report
ClientSizes == {<<4, 3>>, <<16, 9>>}

\* ------------------------------------------------------------------------
\* Fixed-point arithmetic (JavaScript numbers)
\* ------------------------------------------------------------------------
\* division truncating toward zero
Div(a, b) ==
    LET s == IF (a < 0) = (b < 0) THEN 1 ELSE -1
        aa == IF a < 0 THEN -a ELSE a
        bb == IF b < 0 THEN -b ELSE b
    IN  s * (aa \div bb)

\* product of two fixed-point numbers
Mul(a, b) == Div(a * b, Scale)

RECURSIVE Series(_, _, _, _)
\* sum of the alternating Taylor series whose k-th term is term
Series(x, term, k, n) ==
    IF n = 0 \/ term = 0 THEN 0
    ELSE term + Series(x, -Div(Mul(Mul(term, x), x), (k + 1) * (k + 2)), k + 2, n - 1)

\* Math.PI
PI == 3142

\* the angles update derives from a timestamp: t * 0.0005, t * 0.001, t * 0.0001
AngleZ(t) == Div(t * Scale, 2000)
AngleY(t) == Div(t * Scale, 1000)
AngleX(t) == Div(t * Scale, 10000)

\* every angle the program takes a sine or cosine of
Angles ==
    {Div(Div(PI, 4), 2)} \cup
    UNION {{AngleZ(t), AngleY(t), AngleX(t)} : t \in HostTimestamps \cup {0}}

SinTable == [x \in Angles |-> Series(x, x, 1, TaylorTerms)]
CosTable == [x \in Angles |-> Series(x, Scale, 0, TaylorTerms)]

\* Math.sin and Math.cos of a fixed-point angle in radians
Sin(x) == SinTable[x]
Cos(x) == CosTable[x]

\* Math.sqrt of a fixed-point number in 0..1
Sqrt(x) == CHOOSE r \in 0..Scale : r * r <= x * Scale /\ (r + 1) * (r + 1) > x * Scale

\* ------------------------------------------------------------------------
\* gl-matrix mat4: a matrix is a sequence of 16 numbers, gl-matrix index i
\* is position i + 1
\* ------------------------------------------------------------------------
Mat4Set(m, upd) == [i \in 1..16 |-> IF (i - 1) \in DOMAIN upd THEN upd[i - 1] ELSE m[i]]

\* glm.mat4.create()
Mat4Create == [i \in 1..16 |-> IF i \in {1, 6, 11, 16} THEN Scale ELSE 0]

\* glm.mat4.identity(out)
Mat4IdentityKeep(out) == out
Mat4Identity(out) == [i \in 1..16 |-> IF i \in {1, 6, 11, 16} THEN Scale ELSE 0]

\* glm.mat4.translate(out, a, v) with out === a
Mat4Translate(a, v) ==
    LET x == v[1]
        y == v[2]
        z == v[3]
        col(k) == Mul(a[k + 1], x) + Mul(a[k + 5], y) + Mul(a[k + 9], z) + a[k + 13]
    IN  Mat4Set(a, (12 :> col(0)) @@ (13 :> col(1)) @@ (14 :> col(2)) @@ (15 :> col(3)))

\* glm.mat4.rotateY(out, a, rad) with out === a
Mat4RotateY(a, rad) ==
    LET s == Sin(rad)
        c == Cos(rad)
    IN  Mat4Set(a,
            (0 :> Mul(a[1], c) - Mul(a[9], s)) @@
            (1 :> Mul(a[2], c) - Mul(a[10], s)) @@
            (2 :> Mul(a[3], c) - Mul(a[11], s)) @@
            (3 :> Mul(a[4], c) - Mul(a[12], s)) @@
            (8 :> Mul(a[1], s) + Mul(a[9], c)) @@
            (9 :> Mul(a[2], s) + Mul(a[10], c)) @@
            (10 :> Mul(a[3], s) + Mul(a[11], c)) @@
            (11 :> Mul(a[4], s) + Mul(a[12], c)))

\* glm.mat4.rotateX(out, a, rad) with out === a
Mat4RotateX(a, rad) ==
    LET s == Sin(rad)
        c == Cos(rad)
    IN  Mat4Set(a,
            (4 :> Mul(a[5], c) + Mul(a[9], s)) @@
            (5 :> Mul(a[6], c) + Mul(a[10], s)) @@
            (6 :> Mul(a[7], c) + Mul(a[11], s)) @@
            (7 :> Mul(a[8], c) + Mul(a[12], s)) @@
            (8 :> Mul(a[9], c) - Mul(a[5], s)) @@
            (9 :> Mul(a[10], c) - Mul(a[6], s)) @@
            (10 :> Mul(a[11], c) - Mul(a[7], s)) @@
            (11 :> Mul(a[12], c) - Mul(a[8], s)))

\* glm.mat4.perspective(out, fovy, aspect, near, far) with aspect = w / h
Mat4Perspective(fovy, w, h, near, far) ==
    LET half == Div(fovy, 2)
        f == Div(Cos(half) * Scale, Sin(half))
    IN  [i \in 1..16 |->
            CASE i = 1 -> Div(f * h, w)
              [] i = 6 -> f
              [] i = 11 -> Div((far + near) * Scale, near - far)
              [] i = 12 -> -Scale
              [] i = 15 -> Div(2 * far * near, near - far)
              [] OTHER -> 0]

\* ------------------------------------------------------------------------
\* Program constants of onload
\* ------------------------------------------------------------------------
Fx(n) == n * Scale

lineColor == <<0, Div(Fx(9), 10), Fx(1)>>
fillColor == <<0, 0, 0>>
fogColor == <<Div(Fx(15), 100), 0, Div(Fx(15), 100)>>

\* initBuffers: let u = Math.sqrt(1/3)
u == Sqrt(Div(Scale, 3))

positions ==
    << Fx(-1), Fx(-2), Fx(1),
       Fx(4), Fx(-2), Fx(1),
       Fx(1), Fx(2), Fx(1),
       Fx(-4), Fx(2), Fx(1),
       Fx(-10), Fx(-1), Fx(-1),
       Fx(-10), Fx(1), Fx(-1),
       Fx(10), Fx(1), Fx(-1),
       Fx(10), Fx(-1), Fx(-1) >>

vertexNormalAverages ==
    << -u, -u, u,
       u, -u, u,
       u, u, u,
       -u, u, u,
       -u, -u, -u,
       -u, u, -u,
       u, u, -u,
       u, -u, -u >>

barrycentricCoordinates ==
    << Fx(1), 0, 0,
       0, Fx(1), 0,
       0, 0, Fx(1),
       0, Fx(1), 0,
       Fx(1), Fx(1), 0,
       0, Fx(1), 0,
       0, Fx(1), Fx(1),
       0, Fx(1), 0 >>

indicesOutOfRange ==
    << 0, 1, 2,   0, 2, 3,
       4, 5, 6,   4, 6, 8 >>
indices ==
    << 0, 1, 2,   0, 2, 3,
       4, 5, 6,   4, 6, 7 >>

lineIndices ==
    << 0, 1, 1, 2, 2, 3, 3, 0,
       4, 5, 5, 6, 6, 7, 7, 4,
       4, 0,
       5, 3,
       6, 2,
       7, 1 >>

\* the arrays initBuffers uploads, by the name of the local that holds them
ArrayOf(name) ==
    CASE name = "positions" -> positions
      [] name = "vertexNormalAverages" -> vertexNormalAverages
      [] name = "barrycentricCoordinates" -> barrycentricCoordinates
      [] name = "indices" -> indices
      [] name = "lineIndices" -> lineIndices

BufferObjects == {"positionBuffer", "normalAverageBuffer", "barrycentricCoordinatesBuffer",
                  "indexBuffer", "lineIndexBuffer"}
BufferFields == {"position", "normalAverages", "barrycentricCoordinates", "indices",
                 "lineIndices"}
ShaderTypes == {"VERTEX_SHADER", "FRAGMENT_SHADER"}
AttribNames == {"aVertexPosition", "aVertexNormalAverage", "aBarrycentricCoordinate"}
UniformNames == {"uProjectionMatrix", "uModelViewMatrix", "uFillColor", "uLineColor",
                 "uLineWidth", "uVertexOffsetAbsolute", "uMinFogDistance",
                 "uMaxFogDistance", "uFogColor"}

\* ------------------------------------------------------------------------
\* Statements of the handlers, in source order
\* ------------------------------------------------------------------------
initShaderProgramStmts ==
    << <<"loadShader", "VERTEX_SHADER">>,
       <<"loadShader", "FRAGMENT_SHADER">>,
       <<"linkProgram">> >>

initBuffersStmts ==
    << <<"createBuffer", "positionBuffer">>,
       <<"bindBuffer", "ARRAY_BUFFER", "positionBuffer">>,
       <<"bufferData", "ARRAY_BUFFER", "positions">>,
       <<"createBuffer", "normalAverageBuffer">>,
       <<"bindBuffer", "ARRAY_BUFFER", "normalAverageBuffer">>,
       <<"bufferData", "ARRAY_BUFFER", "vertexNormalAverages">>,
       <<"createBuffer", "barrycentricCoordinatesBuffer">>,
       <<"bindBuffer", "ARRAY_BUFFER", "barrycentricCoordinatesBuffer">>,
       <<"bufferData", "ARRAY_BUFFER", "barrycentricCoordinates">>,
       <<"createBuffer", "indexBuffer">>,
       <<"bindBuffer", "ELEMENT_ARRAY_BUFFER", "indexBuffer">>,
       <<"bufferData", "ELEMENT_ARRAY_BUFFER", "indices">>,
       <<"createBuffer", "lineIndexBuffer">>,
       <<"bindBuffer", "ELEMENT_ARRAY_BUFFER", "lineIndexBuffer">>,
       <<"bufferData", "ELEMENT_ARRAY_BUFFER", "lineIndices">>,
       <<"returnBuffers">> >>

onloadStmts ==
    << <<"getContext">>,
       <<"getSupportedExtensions">>,
       <<"getExtension">> >>
    \o initShaderProgramStmts \o
    << <<"clearColor">>,
       <<"clear", "COLOR">>,
       <<"enable", "DEPTH_TEST">>,
       <<"depthFunc", "LEQUAL">>,
       <<"perspective">>,
       <<"createModelView">>,
       <<"getLocations">> >>
    \o initBuffersStmts \o
    << <<"letThen">>,
       <<"update", "0">> >>

drawSceneNoIndexBind ==
    << <<"bindBuffer", "ARRAY_BUFFER", "position">>,
       <<"vertexAttribPointer", "aVertexPosition">>,
       <<"enableVertexAttribArray", "aVertexPosition">>,
       <<"bindBuffer", "ARRAY_BUFFER", "normalAverages">>,
       <<"vertexAttribPointer", "aVertexNormalAverage">>,
       <<"enableVertexAttribArray", "aVertexNormalAverage">>,
       <<"bindBuffer", "ARRAY_BUFFER", "barrycentricCoordinates">>,
       <<"vertexAttribPointer", "aBarrycentricCoordinate">>,
       <<"enableVertexAttribArray", "aBarrycentricCoordinate">>,
       <<"useProgram">>,
       <<"uniform", "uProjectionMatrix">>,
       <<"uniform", "uModelViewMatrix">>,
       <<"uniform", "uFillColor">>,
       <<"uniform", "uLineColor">>,
       <<"uniform", "uLineWidth">>,
       <<"uniform", "uVertexOffsetAbsolute">>,
       <<"uniform", "uMinFogDistance">>,
       <<"uniform", "uMaxFogDistance">>,
       <<"uniform", "uFogColor">>,
       <<"drawElements", "TRIANGLES", "indicesCount">> >>
drawSceneStmts ==
    << <<"bindBuffer", "ARRAY_BUFFER", "position">>,
       <<"vertexAttribPointer", "aVertexPosition">>,
       <<"enableVertexAttribArray", "aVertexPosition">>,
       <<"bindBuffer", "ARRAY_BUFFER", "normalAverages">>,
       <<"vertexAttribPointer", "aVertexNormalAverage">>,
       <<"enableVertexAttribArray", "aVertexNormalAverage">>,
       <<"bindBuffer", "ARRAY_BUFFER", "barrycentricCoordinates">>,
       <<"vertexAttribPointer", "aBarrycentricCoordinate">>,
       <<"enableVertexAttribArray", "aBarrycentricCoordinate">>,
       <<"bindBuffer", "ELEMENT_ARRAY_BUFFER", "indices">>,
       <<"useProgram">>,
       <<"uniform", "uProjectionMatrix">>,
       <<"uniform", "uModelViewMatrix">>,
       <<"uniform", "uFillColor">>,
       <<"uniform", "uLineColor">>,
       <<"uniform", "uLineWidth">>,
       <<"uniform", "uVertexOffsetAbsolute">>,
       <<"uniform", "uMinFogDistance">>,
       <<"uniform", "uMaxFogDistance">>,
       <<"uniform", "uFogColor">>,
       <<"drawElements", "TRIANGLES", "indicesCount">> >>

updateRequestLast ==
    << <<"diff">>,
       <<"clear", "COLOR|DEPTH">>,
       <<"identity">>,
       <<"translate">>,
       <<"rotateY">>,
       <<"rotateX">> >>
    \o drawSceneStmts \o
    << <<"setThen">>,
       <<"requestAnimationFrame">> >>
updateNoRequest ==
    << <<"diff">>,
       <<"clear", "COLOR|DEPTH">>,
       <<"identity">>,
       <<"translate">>,
       <<"rotateY">>,
       <<"rotateX">> >>
    \o drawSceneStmts \o
    << <<"setThen">> >>
updateRequestTwice ==
    << <<"requestAnimationFrame">>,
       <<"diff">>,
       <<"clear", "COLOR|DEPTH">>,
       <<"identity">>,
       <<"translate">>,
       <<"rotateY">>,
       <<"rotateX">> >>
    \o drawSceneStmts \o
    << <<"setThen">>,
       <<"requestAnimationFrame">> >>
updateResizeAware ==
    << <<"requestAnimationFrame">>,
       <<"diff">>,
       <<"clear", "COLOR|DEPTH">>,
       <<"perspective">>,
       <<"identity">>,
       <<"translate">>,
       <<"rotateY">>,
       <<"rotateX">> >>
    \o drawSceneStmts \o
    << <<"setThen">> >>
updateStmts ==
    << <<"requestAnimationFrame">>,
       <<"diff">>,
       <<"clear", "COLOR|DEPTH">>,
       <<"identity">>,
       <<"translate">>,
       <<"rotateY">>,
       <<"rotateX">> >>
    \o drawSceneStmts \o
    << <<"setThen">> >>

\* ------------------------------------------------------------------------
\* State
\* ------------------------------------------------------------------------
VARIABLES
    ctx,               \* "load" before the load event, "onload", "frame" (update
                       \* running), "idle" (between callbacks), "aborted"
    pc,                \* index of the next statement of the running handler
    calls,             \* statements the running handler has executed so far
    error,             \* the value thrown out of onload, "none" if nothing was thrown
    console,           \* messages written with console.error
    gl,                \* state of the WebGL context
    shaderProgram,     \* let shaderProgram
    projectionMatrix,  \* let projectionMatrix
    modelViewMatrix,   \* let modelViewMatrix
    locations,         \* the attribute and uniform locations (lets aVertexPosition ..)
    buffers,           \* let buffers
    then,              \* let then
    now,               \* update's parameter
    diff,              \* update's local diff
    pending,           \* callbacks requestAnimationFrame has queued and not yet run
    clientSize,        \* <<width, height>> of the window and canvas
    completed          \* timestamp of the last update call that returned, -1 if none

jsVars == <<shaderProgram, projectionMatrix, modelViewMatrix, locations, buffers, then, diff>>
vars == <<ctx, pc, calls, error, console, gl, shaderProgram, projectionMatrix,
          modelViewMatrix, locations, buffers, then, now, diff, pending, clientSize,
          completed>>

Undefined == <<>>
ZeroMatrix == [i \in 1..16 |-> 0]

\* GL's defaults: no attribute array set up, every uniform zero
DefaultAttribs == [a \in AttribNames |-> [buffer |-> "null", enabled |-> FALSE]]
DefaultUniforms ==
    [uProjectionMatrix |-> ZeroMatrix, uModelViewMatrix |-> ZeroMatrix,
     uFillColor |-> <<0, 0, 0>>, uLineColor |-> <<0, 0, 0>>,
     uLineWidth |-> 0, uVertexOffsetAbsolute |-> 0, uMinFogDistance |-> 0,
     uMaxFogDistance |-> 0, uFogColor |-> <<0, 0, 0>>]

NoDraw == [mode |-> "none", count |-> 0, elementBuffer |-> "null", program |-> "null",
           attribs |-> DefaultAttribs, uniforms |-> DefaultUniforms, inRange |-> TRUE]

NoLocations == [n \in AttribNames \cup UniformNames |-> "undefined"]

NoBuffers ==
    [position |-> "undefined", normalAverages |-> "undefined",
     barrycentricCoordinates |-> "undefined", indices |-> "undefined",
     indicesCount |-> 0, lineIndices |-> "undefined", lineIndicesCount |-> 0]

\* the context's state before any call: nothing bound, uniforms at GL's default zero
InitialGl ==
    [context |-> "none",
     extension |-> FALSE,
     shaders |-> [t \in ShaderTypes |-> "none"],
     program |-> "none",
     clearColor |-> <<0, 0, 0, 0>>,
     depthTest |-> FALSE,
     depthFunc |-> "LESS",
     ARRAY_BUFFER |-> "null",
     ELEMENT_ARRAY_BUFFER |-> "null",
     created |-> {},
     bufferData |-> [b \in BufferObjects |-> <<>>],
     attribs |-> DefaultAttribs,
     currentProgram |-> "null",
     uniforms |-> DefaultUniforms,
     glError |-> FALSE,
     cleared |-> "none",
     lastDraw |-> NoDraw]

Init ==
    /\ ctx = "load"
    /\ pc = 1
    /\ calls = <<>>
    /\ error = "none"
    /\ console = {}
    /\ gl = InitialGl
    /\ shaderProgram = "undefined"
    /\ projectionMatrix = Undefined
    /\ modelViewMatrix = Undefined
    /\ locations = NoLocations
    /\ buffers = NoBuffers
    /\ then = 0
    /\ now = 0
    /\ diff = 0
    /\ pending = 0
    /\ clientSize \in ClientSizes
    /\ completed = -1

\* ------------------------------------------------------------------------
\* Control
\* ------------------------------------------------------------------------
\* the statements of the handler that is running
Stmts ==
    CASE ctx = "onload" -> onloadStmts
      [] ctx = "frame" -> updateStmts
      [] OTHER -> <<>>

\* the statement to execute next
Stmt == IF pc \in 1..Len(Stmts) THEN Stmts[pc] ELSE <<"return">>

Op == Stmt[1]

\* the statement completes normally
Advance ==
    /\ pc' = pc + 1
    /\ calls' = Append(calls, Stmt)
    /\ UNCHANGED <<ctx, error>>

\* the statement throws e: nothing catches it, the handler is abandoned
Throw(e) ==
    /\ error' = e
    /\ ctx' = "aborted"
    /\ calls' = Append(calls, Stmt)
    /\ UNCHANGED pc

hostVars == <<now, pending, clientSize, completed>>

\* ------------------------------------------------------------------------
\* onload
\* ------------------------------------------------------------------------
\* the load event fires and onload starts
OnLoad ==
    /\ ctx = "load"
    /\ ctx' = "onload"
    /\ pc' = 1
    /\ calls' = <<>>
    /\ UNCHANGED <<error, console, gl, jsVars, hostVars>>

\* canvas.getContext('webgl'): the context, or null where WebGL is unavailable
GetContext ==
    /\ Op = "getContext"
    /\ \E c \in {"webgl", "null"} : gl' = [gl EXCEPT !.context = c]
    /\ Advance
    /\ UNCHANGED <<console, jsVars, hostVars>>

\* console.log(gl.getSupportedExtensions()): a TypeError when gl is null
GetSupportedExtensions ==
    /\ Op = "getSupportedExtensions"
    /\ IF gl.context = "null" THEN Throw("TypeError") ELSE Advance
    /\ UNCHANGED <<console, gl, jsVars, hostVars>>

\* gl.getExtension('OES_standard_derivatives')
GetExtension ==
    /\ Op = "getExtension"
    /\ \E supported \in BOOLEAN : gl' = [gl EXCEPT !.extension = supported]
    /\ Advance
    /\ UNCHANGED <<console, jsVars, hostVars>>

\* loadShader that returns the shader whatever COMPILE_STATUS says
LoadShaderNoThrow(type) ==
    /\ Op = "loadShader"
    /\ Stmt[2] = type
    /\ \E status \in BOOLEAN :
        gl' = [gl EXCEPT !.shaders[type] = IF status THEN "compiled" ELSE "failed"]
    /\ Advance
    /\ UNCHANGED <<console, jsVars, hostVars>>

\* loadShader(type, source): COMPILE_STATUS is the driver's verdict on the source
LoadShader(type) ==
    /\ Op = "loadShader"
    /\ Stmt[2] = type
    /\ \E status \in BOOLEAN :
        IF status
        THEN /\ gl' = [gl EXCEPT !.shaders[type] = "compiled"]
             /\ Advance
             /\ UNCHANGED console
        ELSE /\ console' = console \cup {"An error occurred compiling shader"}
             /\ gl' = [gl EXCEPT !.shaders[type] = "deleted"]
             /\ Throw("shader compilation error")
    /\ UNCHANGED <<jsVars, hostVars>>

\* initShaderProgram that returns the program whatever LINK_STATUS says
LinkProgramNoThrow ==
    /\ Op = "linkProgram"
    /\ \E status \in BOOLEAN :
        gl' = [gl EXCEPT !.program = IF status THEN "linked" ELSE "unlinked"]
    /\ shaderProgram' = "program"
    /\ Advance
    /\ UNCHANGED <<console, projectionMatrix, modelViewMatrix, locations, buffers, then,
                   diff, hostVars>>

\* createProgram, attachShader twice, linkProgram and the LINK_STATUS check of
\* initShaderProgram; its result is assigned to shaderProgram
LinkProgram ==
    /\ Op = "linkProgram"
    /\ \E status \in BOOLEAN :
        IF status
        THEN /\ gl' = [gl EXCEPT !.program = "linked"]
             /\ shaderProgram' = "program"
             /\ Advance
             /\ UNCHANGED console
        ELSE /\ console' = console \cup {"An error occurred linking program"}
             /\ gl' = [gl EXCEPT !.program = "unlinked"]
             /\ Throw("program link error")
             /\ UNCHANGED shaderProgram
    /\ UNCHANGED <<projectionMatrix, modelViewMatrix, locations, buffers, then, diff,
                   hostVars>>

\* gl.clearColor(fogColor[0], fogColor[1], fogColor[2], 1.0)
ClearColor ==
    /\ Op = "clearColor"
    /\ gl' = [gl EXCEPT !.clearColor = <<fogColor[1], fogColor[2], fogColor[3], Fx(1)>>]
    /\ Advance
    /\ UNCHANGED <<console, jsVars, hostVars>>

\* gl.clear(mask), at startup and at the start of every frame
Clear ==
    /\ Op = "clear"
    /\ gl' = [gl EXCEPT !.cleared = Stmt[2]]
    /\ Advance
    /\ UNCHANGED <<console, jsVars, hostVars>>

\* gl.enable(gl.DEPTH_TEST)
Enable ==
    /\ Op = "enable"
    /\ gl' = [gl EXCEPT !.depthTest = TRUE]
    /\ Advance
    /\ UNCHANGED <<console, jsVars, hostVars>>

\* gl.depthFunc(gl.LEQUAL)
DepthFunc ==
    /\ Op = "depthFunc"
    /\ gl' = [gl EXCEPT !.depthFunc = Stmt[2]]
    /\ Advance
    /\ UNCHANGED <<console, jsVars, hostVars>>

\* the perspective matrix for a canvas of w x h
Perspective(size) ==
    Mat4Perspective(Div(PI, 4), size[1], size[2], Div(Scale, 10), Fx(1000))

\* let projectionMatrix = glm.mat4.perspective(...)
SetProjection ==
    /\ Op = "perspective"
    /\ projectionMatrix' = Perspective(clientSize)
    /\ Advance
    /\ UNCHANGED <<console, gl, shaderProgram, modelViewMatrix, locations, buffers, then,
                   diff, hostVars>>

\* let modelViewMatrix = glm.mat4.create()
CreateModelView ==
    /\ Op = "createModelView"
    /\ modelViewMatrix' = Mat4Create
    /\ Advance
    /\ UNCHANGED <<console, gl, shaderProgram, projectionMatrix, locations, buffers, then,
                   diff, hostVars>>

\* the three getAttribLocation and nine getUniformLocation calls
GetLocations ==
    /\ Op = "getLocations"
    /\ locations' = [n \in AttribNames \cup UniformNames |-> n]
    /\ Advance
    /\ UNCHANGED <<console, gl, shaderProgram, projectionMatrix, modelViewMatrix, buffers,
                   then, diff, hostVars>>

\* ------------------------------------------------------------------------
\* initBuffers
\* ------------------------------------------------------------------------
\* a buffer named directly (initBuffers' locals) or through a field of buffers
BufferRef(ref) == IF ref \in BufferFields THEN buffers[ref] ELSE ref

\* gl.createBuffer()
CreateBuffer ==
    /\ Op = "createBuffer"
    /\ gl' = [gl EXCEPT !.created = @ \cup {Stmt[2]}]
    /\ Advance
    /\ UNCHANGED <<console, jsVars, hostVars>>

\* gl.bindBuffer(target, buffer)
BindBuffer ==
    /\ Op = "bindBuffer"
    /\ LET buffer == BufferRef(Stmt[3])
       IN  IF buffer \in gl.created
           THEN gl' = [gl EXCEPT ![Stmt[2]] = buffer]
           ELSE gl' = [gl EXCEPT !.glError = TRUE]
    /\ Advance
    /\ UNCHANGED <<console, jsVars, hostVars>>

\* gl.bufferData(target, data, gl.STATIC_DRAW): writes the buffer bound to target
BufferData ==
    /\ Op = "bufferData"
    /\ LET bound == gl[Stmt[2]]
       IN  IF bound = "null"
           THEN gl' = [gl EXCEPT !.glError = TRUE]
           ELSE gl' = [gl EXCEPT !.bufferData[bound] = ArrayOf(Stmt[3])]
    /\ Advance
    /\ UNCHANGED <<console, jsVars, hostVars>>

\* the object initBuffers returns, assigned to buffers
ReturnBuffers ==
    /\ Op = "returnBuffers"
    /\ buffers' = [position |-> "positionBuffer",
                   normalAverages |-> "normalAverageBuffer",
                   barrycentricCoordinates |-> "barrycentricCoordinatesBuffer",
                   indices |-> "indexBuffer",
                   indicesCount |-> Len(indices),
                   lineIndices |-> "lineIndexBuffer",
                   lineIndicesCount |-> Len(lineIndices)]
    /\ Advance
    /\ UNCHANGED <<console, gl, shaderProgram, projectionMatrix, modelViewMatrix,
                   locations, then, diff, hostVars>>

\* let then = 0
LetThen ==
    /\ Op = "letThen"
    /\ then' = 0
    /\ Advance
    /\ UNCHANGED <<console, gl, shaderProgram, projectionMatrix, modelViewMatrix,
                   locations, buffers, diff, hostVars>>

\* update(0), the last statement of onload
CallUpdate ==
    /\ Op = "update"
    /\ ctx' = "frame"
    /\ pc' = 1
    /\ calls' = <<>>
    /\ now' = 0
    /\ UNCHANGED <<error, console, gl, jsVars, pending, clientSize, completed>>

\* ------------------------------------------------------------------------
\* update
\* ------------------------------------------------------------------------
\* requestAnimationFrame(update)
RequestAnimationFrame ==
    /\ Op = "requestAnimationFrame"
    /\ pending' = pending + 1
    /\ Advance
    /\ UNCHANGED <<console, gl, jsVars, now, clientSize, completed>>

\* let diff = now - then
SetDiff ==
    /\ Op = "diff"
    /\ diff' = now - then
    /\ Advance
    /\ UNCHANGED <<console, gl, shaderProgram, projectionMatrix, modelViewMatrix,
                   locations, buffers, then, hostVars>>

\* glm.mat4.identity(modelViewMatrix)
Identity ==
    /\ Op = "identity"
    /\ modelViewMatrix' = Mat4Identity(modelViewMatrix)
    /\ Advance
    /\ UNCHANGED <<console, gl, shaderProgram, projectionMatrix, locations, buffers, then,
                   diff, hostVars>>

\* a camera distance of -25 + 5 * Math.cos(t * 0.0005)
CameraZCos(t) == Fx(-25) + 5 * Cos(AngleZ(t))
\* -25 + 5 * Math.sin(t * 0.0005)
CameraZ(t) == Fx(-25) + 5 * Sin(AngleZ(t))

\* glm.mat4.translate(modelViewMatrix, modelViewMatrix, [0, 0, -25 + 5 * Math.sin(..)])
Translate ==
    /\ Op = "translate"
    /\ modelViewMatrix' = Mat4Translate(modelViewMatrix, <<0, 0, CameraZ(now)>>)
    /\ Advance
    /\ UNCHANGED <<console, gl, shaderProgram, projectionMatrix, locations, buffers, then,
                   diff, hostVars>>

\* glm.mat4.rotateY(modelViewMatrix, modelViewMatrix, now * 0.001)
RotateY ==
    /\ Op = "rotateY"
    /\ modelViewMatrix' = Mat4RotateY(modelViewMatrix, AngleY(now))
    /\ Advance
    /\ UNCHANGED <<console, gl, shaderProgram, projectionMatrix, locations, buffers, then,
                   diff, hostVars>>

\* glm.mat4.rotateX(modelViewMatrix, modelViewMatrix, now * 0.0001)
RotateX ==
    /\ Op = "rotateX"
    /\ modelViewMatrix' = Mat4RotateX(modelViewMatrix, AngleX(now))
    /\ Advance
    /\ UNCHANGED <<console, gl, shaderProgram, projectionMatrix, locations, buffers, then,
                   diff, hostVars>>

\* then = now
SetThen ==
    /\ Op = "setThen"
    /\ then' = now
    /\ Advance
    /\ UNCHANGED <<console, gl, shaderProgram, projectionMatrix, modelViewMatrix,
                   locations, buffers, diff, hostVars>>

\* update returns (and with it onload, when onload made the call)
Return ==
    /\ ctx = "frame"
    /\ Op = "return"
    /\ ctx' = "idle"
    /\ completed' = now
    /\ UNCHANGED <<pc, calls, error, console, gl, jsVars, now, pending, clientSize>>

\* ------------------------------------------------------------------------
\* drawScene
\* ------------------------------------------------------------------------
\* gl.vertexAttribPointer(location, 3, gl.FLOAT, false, 0, 0): the attribute reads
\* the buffer bound to ARRAY_BUFFER at the time of the call
VertexAttribPointer ==
    /\ Op = "vertexAttribPointer"
    /\ LET loc == locations[Stmt[2]]
       IN  IF loc \in AttribNames /\ gl.ARRAY_BUFFER # "null"
           THEN gl' = [gl EXCEPT !.attribs[loc].buffer = gl.ARRAY_BUFFER]
           ELSE gl' = [gl EXCEPT !.glError = TRUE]
    /\ Advance
    /\ UNCHANGED <<console, jsVars, hostVars>>

\* gl.enableVertexAttribArray(location)
EnableVertexAttribArray ==
    /\ Op = "enableVertexAttribArray"
    /\ LET loc == locations[Stmt[2]]
       IN  IF loc \in AttribNames
           THEN gl' = [gl EXCEPT !.attribs[loc].enabled = TRUE]
           ELSE gl' = [gl EXCEPT !.glError = TRUE]
    /\ Advance
    /\ UNCHANGED <<console, jsVars, hostVars>>

\* gl.useProgram(shaderProgram): an error unless the program linked
UseProgram ==
    /\ Op = "useProgram"
    /\ IF shaderProgram = "program" /\ gl.program = "linked"
       THEN gl' = [gl EXCEPT !.currentProgram = shaderProgram]
       ELSE gl' = [gl EXCEPT !.glError = TRUE]
    /\ Advance
    /\ UNCHANGED <<console, jsVars, hostVars>>

\* the value drawScene passes for each uniform
UniformValue(name) ==
    CASE name = "uProjectionMatrix" -> projectionMatrix
      [] name = "uModelViewMatrix" -> modelViewMatrix
      [] name = "uFillColor" -> fillColor
      [] name = "uLineColor" -> lineColor
      [] name = "uLineWidth" -> 3
      [] name = "uVertexOffsetAbsolute" -> 0
      [] name = "uMinFogDistance" -> 20
      [] name = "uMaxFogDistance" -> 30
      [] name = "uFogColor" -> fogColor

\* gl.uniformMatrix4fv / uniform3fv / uniform1f(location, value): sets the uniform
\* of the program in use, an error when no program is in use
Uniform ==
    /\ Op = "uniform"
    /\ LET loc == locations[Stmt[2]]
       IN  IF loc \in UniformNames /\ gl.currentProgram # "null"
           THEN gl' = [gl EXCEPT !.uniforms[loc] = UniformValue(Stmt[2])]
           ELSE gl' = [gl EXCEPT !.glError = TRUE]
    /\ Advance
    /\ UNCHANGED <<console, jsVars, hostVars>>

\* whether the first count entries of the element buffer exist and index a vertex
\* every enabled attribute array holds (3 components per vertex)
IndicesInRange(elements, count, attribs, data) ==
    /\ count <= Len(elements)
    /\ \A i \in 1..count : \A a \in AttribNames :
        attribs[a].enabled =>
            /\ attribs[a].buffer # "null"
            /\ 3 * (elements[i] + 1) <= Len(data[attribs[a].buffer])

\* gl.drawElements(mode, count, gl.UNSIGNED_SHORT, 0)
DrawElements ==
    /\ Op = "drawElements"
    /\ LET count == buffers[Stmt[3]]
           elementBuffer == gl.ELEMENT_ARRAY_BUFFER
           inRange == /\ elementBuffer # "null"
                      /\ IndicesInRange(gl.bufferData[elementBuffer], count, gl.attribs,
                                        gl.bufferData)
       IN  gl' = [gl EXCEPT
                    !.lastDraw = [mode |-> Stmt[2], count |-> count,
                                  elementBuffer |-> elementBuffer,
                                  program |-> gl.currentProgram,
                                  attribs |-> gl.attribs,
                                  uniforms |-> gl.uniforms,
                                  inRange |-> inRange],
                    !.glError = @ \/ gl.currentProgram = "null" \/ ~inRange]
    /\ Advance
    /\ UNCHANGED <<console, jsVars, hostVars>>

\* ------------------------------------------------------------------------
\* Host
\* ------------------------------------------------------------------------
\* the host runs a queued frame callback with the current time, which never
\* goes back
HostRunCallback ==
    /\ ctx = "idle"
    /\ pending > 0
    /\ \E t \in HostTimestamps : t >= now /\ now' = t
    /\ pending' = pending - 1
    /\ ctx' = "frame"
    /\ pc' = 1
    /\ calls' = <<>>
    /\ UNCHANGED <<error, console, gl, jsVars, clientSize, completed>>

\* the user resizes the window while no handler runs
Resize ==
    /\ ctx \in {"load", "idle", "aborted"}
    /\ \E size \in ClientSizes : size # clientSize /\ clientSize' = size
    /\ UNCHANGED <<ctx, pc, calls, error, console, gl, jsVars, now, pending, completed>>

\* a statement of the running handler
Step ==
    \/ GetContext
    \/ GetSupportedExtensions
    \/ GetExtension
    \/ \E type \in ShaderTypes : LoadShader(type)
    \/ LinkProgram
    \/ ClearColor
    \/ Clear
    \/ Enable
    \/ DepthFunc
    \/ SetProjection
    \/ CreateModelView
    \/ GetLocations
    \/ CreateBuffer
    \/ BindBuffer
    \/ BufferData
    \/ ReturnBuffers
    \/ LetThen
    \/ CallUpdate
    \/ RequestAnimationFrame
    \/ SetDiff
    \/ Identity
    \/ Translate
    \/ RotateY
    \/ RotateX
    \/ VertexAttribPointer
    \/ EnableVertexAttribArray
    \/ UseProgram
    \/ Uniform
    \/ DrawElements
    \/ SetThen
    \/ Return

Next == OnLoad \/ Step \/ HostRunCallback \/ Resize

Spec == Init /\ [][Next]_vars

\* a handler that has started runs to completion, and the host eventually runs
\* every callback it was asked to run
LiveSpec == Spec /\ WF_vars(OnLoad) /\ WF_vars(Step) /\ WF_vars(HostRunCallback)

\* ------------------------------------------------------------------------
\* Derived notions used by the properties
\* ------------------------------------------------------------------------
\* the two-state lifecycle: Running from the moment update is first entered
Lifecycle == IF ctx \in {"frame", "idle"} THEN "Running" ELSE "Uninitialized"
Running == Lifecycle = "Running"

\* some drawElements call has been issued
Drawn == gl.lastDraw.mode # "none"

BothCompiled == \A t \in ShaderTypes : gl.shaders[t] = "compiled"

\* positions in calls of the statements with operation op
Positions(op) == {i \in 1..Len(calls) : calls[i][1] = op}

\* the running (or last) update call has finished computing the model-view matrix
MatrixDone == Running /\ Positions("rotateX") # {}

\* the operations of a frame that change GPU state or submit a draw
GpuOps == {"clear", "bindBuffer", "vertexAttribPointer", "enableVertexAttribArray",
           "useProgram", "uniform", "drawElements"}

\* ------------------------------------------------------------------------
\* C1: when a shader fails to compile, the log is written, the failed shader
\* object is deleted, 'shader compilation error' is thrown out of onload, and
\* in that and every later state no program link has been attempted, no frame
\* callback is queued, nothing has been drawn and the render loop is not entered.
\* ------------------------------------------------------------------------
C1_CompileFailureAborts ==
    /\ \A t \in ShaderTypes :
          gl.shaders[t] \notin {"none", "compiled"} =>
              /\ gl.shaders[t] = "deleted"
              /\ error = "shader compilation error"
    /\ error = "shader compilation error" =>
          /\ \E t \in ShaderTypes : gl.shaders[t] = "deleted"
          /\ "An error occurred compiling shader" \in console
          /\ ctx = "aborted"
          /\ gl.program = "none"
          /\ shaderProgram = "undefined"
          /\ pending = 0
          /\ ~Drawn
          /\ ~Running

\* the fragment shader failed after the vertex shader compiled
C1_Witness ==
    /\ error = "shader compilation error"
    /\ gl.shaders["VERTEX_SHADER"] = "compiled"
    /\ gl.shaders["FRAGMENT_SHADER"] = "deleted"

\* ------------------------------------------------------------------------
\* C2: a draw call or a queued frame callback implies both shaders compiled and
\* the program linked; when both compile and LINK_STATUS is false the error is
\* 'program link error', onload is abandoned and Running is never entered.
\* ------------------------------------------------------------------------
C2_LinkBeforeDraw ==
    /\ (Drawn \/ pending > 0 \/ Running) =>
          /\ BothCompiled
          /\ gl.program = "linked"
          /\ error = "none"
    /\ (BothCompiled /\ gl.program = "unlinked") =>
          /\ error = "program link error"
          /\ "An error occurred linking program" \in console
          /\ ctx = "aborted"
          /\ pending = 0
          /\ ~Drawn
          /\ ~Running
    /\ error = "program link error" => (BothCompiled /\ gl.program = "unlinked")

\* the link failed after both shaders compiled
C2_Witness ==
    /\ BothCompiled
    /\ gl.program = "unlinked"
    /\ ctx = "aborted"

\* ------------------------------------------------------------------------
\* C3: the lifecycle only ever moves Uninitialized -> Running and never leaves
\* Running; every update call that returns has requested another call; and,
\* the host running every requested callback, from any Running state another
\* frame's drawElements is always eventually reached.
\* ------------------------------------------------------------------------
C3_RunsForever ==
    /\ [][Running => Running']_vars
    /\ [][(ctx = "frame" /\ ctx' = "idle") =>
              (Positions("requestAnimationFrame") # {} /\ pending > 0)]_vars
    /\ (Running ~> (ctx = "frame" /\ Op = "drawElements"))

\* a frame the host started has returned and the next one is queued
C3_Witness ==
    /\ ctx = "idle"
    /\ completed = MaxTime * TimeStep
    /\ pending > 0

\* ------------------------------------------------------------------------
\* C4 as stated: in a frame, requestAnimationFrame is called only after every
\* GPU state change and the draw of that frame.
\* ------------------------------------------------------------------------
C4_RequestAfterGpuWork ==
    \A j \in Positions("requestAnimationFrame") :
        \A op \in GpuOps : \E i \in Positions(op) : i < j

\* C4 amended: in a frame, requestAnimationFrame is the first call update makes,
\* made once and before every GPU state change and the draw; and update returns
\* (so that the requested callback can run) only after all of them were made.
C4_RequestBeforeGpuWork ==
    Running =>
        /\ calls # <<>> => calls[1] = <<"requestAnimationFrame">>
        /\ \A j \in Positions("requestAnimationFrame") :
              /\ j = 1
              /\ \A op \in GpuOps : \A i \in Positions(op) : j < i
        /\ ctx = "idle" => \A op \in GpuOps : Positions(op) # {}

\* a host-started frame made its request and then did its GPU work
C4_Witness ==
    /\ ctx = "frame"
    /\ now > 0
    /\ calls # <<>>
    /\ calls[1] = <<"requestAnimationFrame">>
    /\ calls[Len(calls)][1] = "drawElements"

\* ------------------------------------------------------------------------
\* C5: once a frame with timestamp now has computed it, the model-view matrix
\* is identity, translated along the view axis, rotated about Y by now * 0.001,
\* then about X by now * 0.0001: a function of now alone, whatever frames came
\* before and whatever the matrix and then held.
\* ------------------------------------------------------------------------
\* translate * rotateY * rotateX written out entry by entry, column-major
ModelViewAt(t) ==
    LET sy == Sin(AngleY(t))
        cy == Cos(AngleY(t))
        sx == Sin(AngleX(t))
        cx == Cos(AngleX(t))
        z == Fx(-25) + 5 * Sin(AngleZ(t))
    IN  << cy, 0, -sy, 0,
           Mul(sy, sx), cx, Mul(cy, sx), 0,
           Mul(sy, cx), -sx, Mul(cy, cx), 0,
           0, 0, z, Scale >>

C5_ModelViewFromTimestampAlone == MatrixDone => modelViewMatrix = ModelViewAt(now)

\* a third frame, after two frames with other timestamps, has computed its matrix
C5_Witness ==
    /\ MatrixDone
    /\ ctx = "frame"
    /\ completed > 0
    /\ now > completed

\* ------------------------------------------------------------------------
\* C6: once Running, no step changes what startup created: the projection
\* matrix, the contents and identity of the GPU buffers, the shader objects and
\* program, the locations and the buffers object.  Of the program's own
\* variables a frame assigns only modelViewMatrix and then (diff and now are
\* update's local and parameter).  The bindings, uniforms and framebuffer of
\* the GL context are set again by every frame and are not part of this claim.
\* ------------------------------------------------------------------------
C6_FramesKeepStartupState ==
    [][Running =>
          /\ projectionMatrix' = projectionMatrix
          /\ gl'.bufferData = gl.bufferData
          /\ gl'.created = gl.created
          /\ gl'.shaders = gl.shaders
          /\ gl'.program = gl.program
          /\ shaderProgram' = shaderProgram
          /\ locations' = locations
          /\ buffers' = buffers]_vars

\* a frame has run after the window was resized since startup
C6_Witness ==
    /\ ctx = "idle"
    /\ completed > 0
    /\ projectionMatrix # Perspective(clientSize)

\* ------------------------------------------------------------------------
\* C7: in the arrays initBuffers uploaded, every triangle and line index is
\* below the vertex count 8 (positions, normal averages and barycentric
\* coordinates all hold 8 vertices); there are 4 triangles (12 indices) and 12
\* distinct edges (24 indices); indicesCount and lineIndicesCount, and the count
\* of every draw, are the lengths of the uploaded lists.
\* ------------------------------------------------------------------------
C7_GeometryInBounds ==
    buffers.indices # "undefined" =>
        LET tri == gl.bufferData[buffers.indices]
            lines == gl.bufferData[buffers.lineIndices]
            vertexCount == Len(gl.bufferData[buffers.position]) \div 3
            edges == {{lines[2 * k - 1], lines[2 * k]} : k \in 1..(Len(lines) \div 2)}
        IN  /\ vertexCount = 8
            /\ Len(gl.bufferData[buffers.position]) = 3 * vertexCount
            /\ Len(gl.bufferData[buffers.normalAverages]) = 3 * vertexCount
            /\ Len(gl.bufferData[buffers.barrycentricCoordinates]) = 3 * vertexCount
            /\ \A i \in 1..Len(tri) : tri[i] \in 0..(vertexCount - 1)
            /\ \A i \in 1..Len(lines) : lines[i] \in 0..(vertexCount - 1)
            /\ Len(tri) % 3 = 0
            /\ Len(tri) \div 3 = 4
            /\ Len(lines) % 2 = 0
            /\ Cardinality(edges) = 12
            /\ \A e \in edges : Cardinality(e) = 2
            /\ buffers.indicesCount = Len(tri)
            /\ buffers.lineIndicesCount = Len(lines)
            /\ Drawn => /\ gl.lastDraw.count = Len(gl.bufferData[gl.lastDraw.elementBuffer])
                        /\ gl.lastDraw.inRange

\* the uploaded geometry has been drawn
C7_Witness ==
    /\ buffers.indices = "indexBuffer"
    /\ gl.bufferData["lineIndexBuffer"] # <<>>
    /\ Drawn

\* ------------------------------------------------------------------------
\* C8 as stated: after the frame with timestamp 0 the model-view matrix is
\* translate(0, 0, -20) with no rotation.
\* ------------------------------------------------------------------------
Translation(z) ==
    [i \in 1..16 |-> IF i \in {1, 6, 11, 16} THEN Scale ELSE IF i = 15 THEN z ELSE 0]

C8_FirstFrameTranslate20 == (MatrixDone /\ now = 0) => modelViewMatrix = Translation(Fx(-20))

\* C8 amended: after the frame with timestamp 0 (update(0)) the model-view
\* matrix is translate(0, 0, -25) with no rotation: both angles are 0 and the
\* distance is -25 + 5 * sin(0) = -25.
C8_FirstFrameTranslate25 ==
    (MatrixDone /\ now = 0) =>
        /\ AngleY(now) = 0
        /\ AngleX(now) = 0
        /\ modelViewMatrix = Translation(Fx(-25))

\* update(0) has returned
C8_Witness ==
    /\ MatrixDone
    /\ now = 0
    /\ completed = 0

\* ------------------------------------------------------------------------
\* C9: the GL calls of a frame are, in order: clear of colour and depth; the
\* position, normal-average and barycentric buffers each bound and pointed to
\* by its attribute; the triangle index buffer bound; the program put in use;
\* the nine uniforms; one TRIANGLES draw.  Every draw reads the triangle index
\* buffer with the triangle index count, under the program, with
\* uVertexOffsetAbsolute = 0 and the current matrices, and no GL call fails.
\* ------------------------------------------------------------------------
IsGpuCall(stmt) == stmt[1] \in GpuOps

FrameGlOrder ==
    << <<"clear", "COLOR|DEPTH">>,
       <<"bindBuffer", "ARRAY_BUFFER", "position">>,
       <<"vertexAttribPointer", "aVertexPosition">>,
       <<"enableVertexAttribArray", "aVertexPosition">>,
       <<"bindBuffer", "ARRAY_BUFFER", "normalAverages">>,
       <<"vertexAttribPointer", "aVertexNormalAverage">>,
       <<"enableVertexAttribArray", "aVertexNormalAverage">>,
       <<"bindBuffer", "ARRAY_BUFFER", "barrycentricCoordinates">>,
       <<"vertexAttribPointer", "aBarrycentricCoordinate">>,
       <<"enableVertexAttribArray", "aBarrycentricCoordinate">>,
       <<"bindBuffer", "ELEMENT_ARRAY_BUFFER", "indices">>,
       <<"useProgram">> >>
    \o [i \in 1..9 |-> <<"uniform">>]
    \o << <<"drawElements", "TRIANGLES", "indicesCount">> >>

C9_FrameDrawOrder ==
    /\ ~gl.glError
    /\ Running =>
          LET glCalls == SelectSeq(calls, IsGpuCall)
              n == Len(glCalls)
          IN  /\ n <= Len(FrameGlOrder)
              /\ \A i \in 1..n :
                    IF FrameGlOrder[i] = <<"uniform">>
                    THEN glCalls[i][1] = "uniform"
                    ELSE glCalls[i] = FrameGlOrder[i]
              /\ {calls[i][2] : i \in Positions("uniform")} = UniformNames
                 \/ Positions("drawElements") = {}
              /\ ctx = "idle" => n = Len(FrameGlOrder)
              /\ Cardinality(Positions("drawElements")) <= 1
    /\ Drawn =>
          /\ gl.lastDraw.mode = "TRIANGLES"
          /\ gl.lastDraw.elementBuffer = "indexBuffer"
          /\ gl.lastDraw.count = Len(gl.bufferData["indexBuffer"])
          /\ gl.lastDraw.program = "program"
          /\ gl.lastDraw.attribs =
                [aVertexPosition |-> [buffer |-> "positionBuffer", enabled |-> TRUE],
                 aVertexNormalAverage |-> [buffer |-> "normalAverageBuffer", enabled |-> TRUE],
                 aBarrycentricCoordinate |->
                     [buffer |-> "barrycentricCoordinatesBuffer", enabled |-> TRUE]]
          /\ gl.lastDraw.uniforms.uVertexOffsetAbsolute = 0
          /\ gl.lastDraw.uniforms.uProjectionMatrix = projectionMatrix
          /\ Positions("drawElements") # {} =>
                gl.lastDraw.uniforms.uModelViewMatrix = modelViewMatrix

\* a frame has just issued its draw
C9_Witness ==
    /\ ctx = "frame"
    /\ calls # <<>>
    /\ calls[Len(calls)] = <<"drawElements", "TRIANGLES", "indicesCount">>
    /\ gl.lastDraw.elementBuffer = "indexBuffer"

\* ------------------------------------------------------------------------
\* C10: at most one frame callback is ever queued; while Running with no
\* callback executing exactly one is queued; every update call, update(0)
\* included, queues exactly one; and between frames then is the timestamp of
\* the frame that completed last.
\* ------------------------------------------------------------------------
C10_OneOutstandingCallback ==
    /\ pending <= 1
    /\ ~Running => pending = 0
    /\ Running =>
          /\ Cardinality(Positions("requestAnimationFrame")) <= 1
          /\ ctx = "idle" =>
                /\ pending = 1
                /\ Cardinality(Positions("requestAnimationFrame")) = 1
                /\ then = completed
                /\ then = now

\* between two host frames: the second frame has returned, the third is queued
C10_Witness ==
    /\ ctx = "idle"
    /\ pending = 1
    /\ completed > TimeStep
    /\ then = completed

====
